---- MODULE Spec2Model ----
(***************************************************************************)
(* Model of the notification and health subsystems of scribe-backend:      *)
(*   utils/notifications.py  class Notifications (pending queue, the       *)
(*                           self re-arming drain handler, the delivery    *)
(*                           step, the convenience senders, the dedup      *)
(*                           ledger)                                       *)
(*   routers/healthcheck.py  POST and GET /healthcheck, GET /status        *)
(*   routers/user.py         POST /me/test-notifications                   *)
(*                                                                         *)
(* The queue and its drain threads are specified by QueueSpec (and, with   *)
(* the fairness of the timer and of thread scheduling, by FairQueueSpec);  *)
(* the senders in front of the queue by SenderSpec; one test-notifications *)
(* request by TestNotificationsSpec; the dedup ledger by LedgerSpec, and   *)
(* by GuardedLedgerSpec when every caller asks the ledger before it sends  *)
(* and records; GET /status as a function of its inputs by StatusSpec; and *)
(* the health aggregator with its three endpoints by HealthSpec.           *)
(***************************************************************************)
EXTENDS Integers, Sequences, FiniteSets, TLC

\* ---------------------------------------------------------------- bounds
\* add() calls made over a run.
MaxAdds == 2
\* Longest recipient list handed to add().
MaxRcpt == 2
\* Threads of one Notifications instance that exist at a time: the pending
\* Timer thread plus the handler invocations still running.
MaxThreads == 3

\* Callers of the dedup ledger at work at a time.
MaxCallers == 2
\* Rows the NotificationsSent table gets over a run.
MaxRows == 2
\* Notifications the callers of the ledger send over a run.
MaxSends == 2

\* Calls of a convenience sender over a run.
MaxSenderCalls == 1
\* Snapshots in the history of one worker.
MaxHist == 2
\* POST /healthcheck requests over a run.
MaxReports == 3

\* threading.Timer(3.0, handler): the delay, in time units.
TimerDelay == 3
\* now - last_seen < 120: the window of an online worker, in seconds.
OnlineWindow == 120

VARIABLES
    API_SMTP_HOST,      \* settings: TRUE iff the value is set (truthy)
    API_SMTP_USERNAME,
    API_SMTP_PASSWORD,
    queue,              \* self.__queue, head first
    threads,            \* the Timer threads of the instance that exist, in
                        \*   the order they were started; of each:
                        \*     pc       where the thread is
                        \*     tleft    time left before the Timer expires
                        \*     cur      the local `notification`
                        \*     calls    recipients of each sendmail call the
                        \*              delivery step of `cur` has seen return
                        \*     outcome  how the delivery step of `cur` ended
    addCalls,           \* history: add() calls that have returned
    appended,           \* history: jobs appended to the queue; a job's id is
                        \*   its rank among them
    status,             \* history: per job id, how far the job has got
    pops,               \* history: per job id, times popleft() returned it
    popError,           \* history: a popleft() raised IndexError
    ledger,             \* table NotificationsSent: rows committed, per row value
    cpc,                \* per ledger caller: where it is
    crow,               \* per ledger caller: the row (key) it works on
    sends,              \* history: per key, notifications sent by callers
                        \*   that asked the ledger first
    recorded,           \* history: keys of the notification_sent_record_add
                        \*   calls that have returned
    clock,              \* time.time(), in seconds
    worker_data,        \* the aggregator `health`: per worker id the
                        \*   snapshots reported, oldest first
    response,           \* the JSONResponse of the last GET /status
    probe,              \* history: of the last GET /status, the time it
                        \*   read and whether its database probe succeeded
    arrived,            \* history: per worker id, the payloads posted and
                        \*   the time of each, in the order the requests
                        \*   were handled
    snapshot,           \* the JSONResponse of the last GET /healthcheck
    senderCalls,        \* history: calls of a convenience sender that have
                        \*   returned or raised
    senderRaised,       \* history: those of them that raised
    called,             \* history: the sender of the last such call and
                        \*   the template it read from the settings
    tn                  \* the POST /me/test-notifications request: where it
                        \*   is, the user's email and the response

settings == <<API_SMTP_HOST, API_SMTP_USERNAME, API_SMTP_PASSWORD>>

qvars == <<settings, queue, threads, addCalls, appended, status, pops,
           popError>>

lvars == <<ledger, cpc, crow, sends, recorded>>

hvars == <<clock, worker_data, response, probe, arrived, snapshot>>

svars == <<senderCalls, senderRaised, called, tn>>

vars == <<qvars, lvars, hvars, svars>>

JobIds == 1..MaxAdds
NoJob == [id |-> 0, to_emails |-> <<>>, subject |-> "", message |-> <<>>]

Callers == 1..MaxCallers
UserIds == {"u1", "u2"}
Uuids == {"job1"}
NotificationTypes == {"deleted", "to_be_deleted"}
\* The columns of NotificationsSent that the class writes and filters by.
Rows == [user_id : UserIds, uuid : Uuids, notification_type : NotificationTypes]
NoRow == [user_id |-> "", uuid |-> "", notification_type |-> ""]

\* A recipient list of n distinct addresses.
Recipients(n) == [i \in 1..n |-> i]

\* Steps of handler() that take no time: everything but the blocking
\* transport calls.
Instant == {"arm", "check", "pop", "cfg"}
\* A handler invocation is executing.
Running == Instant \cup {"open", "send"}
\* A delivery step ended in its except clause.
Failed == {"failed_open", "failed_send"}

\* The test of the drain loop, lines 34-38.
Configured == API_SMTP_HOST /\ API_SMTP_USERNAME /\ API_SMTP_PASSWORD

\* threading.Timer(3.0, handler).start(): a thread that waits TimerDelay
\* and then calls handler().
NewTimer == [pc |-> "timer", tleft |-> TimerDelay, cur |-> NoJob,
             calls |-> <<>>, outcome |-> "none"]

\* The threads without thread h, which has ended.
Exit(h) == [i \in 1..(Len(threads) - 1) |->
               IF i < h THEN threads[i] ELSE threads[i + 1]]

\* The worker ids that report.
Workers == {"gpu-1", "gpu-2"}
\* The instants at which a request is handled: around both ends of the
\* window of a snapshot taken at 0 or at 1.
Instants == {0, 1, OnlineWindow - 1, OnlineWindow, OnlineWindow + 1}
NoResponse == [status_code |-> 0]
NoProbe == [now |-> 0, db_ok |-> FALSE]
NoSnapshot == [status_code |-> 0, result |-> <<>>]

\* State of the health router after import: health = HealthStatus(), no
\* request handled.
HealthInit ==
    /\ clock = 0
    /\ worker_data = <<>>
    /\ response = NoResponse
    /\ probe = NoProbe
    /\ arrived = <<>>
    /\ snapshot = NoSnapshot

\* State after Notifications(): the constructor has called handler() once,
\* which armed the first Timer and found the queue empty.
NotificationsInit ==
    /\ API_SMTP_HOST \in BOOLEAN
    /\ API_SMTP_USERNAME \in BOOLEAN
    /\ API_SMTP_PASSWORD \in BOOLEAN
    /\ queue = <<>>
    /\ threads = <<NewTimer>>
    /\ addCalls = 0
    /\ appended = 0
    /\ status = [j \in JobIds |-> "none"]
    /\ pops = [j \in JobIds |-> 0]
    /\ popError = FALSE
    /\ ledger = [r \in Rows |-> 0]
    /\ cpc = [c \in Callers |-> "idle"]
    /\ crow = [c \in Callers |-> NoRow]
    /\ sends = [r \in Rows |-> 0]
    /\ recorded = {}

\* No convenience sender called, no test-notifications request made.
SendersInit ==
    /\ senderCalls = 0
    /\ senderRaised = 0
    /\ called = [sender |-> "", template |-> <<>>]
    /\ tn = [pc |-> "idle", email |-> "", status_code |-> 0, count |-> 0]

Init == NotificationsInit /\ HealthInit /\ SendersInit

\* ------------------------------------------------------------- producers
\* Lines 60-72: add(to_emails, subject, message). The settings never
\* change and deque.append is one atomic operation, so the call is one
\* step. The history `status` follows the jobs whose id it knows.
add(to_emails, subject, message) ==
    /\ addCalls' = addCalls + 1
    /\ IF ~API_SMTP_HOST
          THEN UNCHANGED <<queue, appended, status>>
          ELSE /\ queue' = Append(queue, [id |-> appended + 1,
                                          to_emails |-> to_emails,
                                          subject |-> subject,
                                          message |-> message])
               /\ appended' = appended + 1
               /\ status' = [j \in DOMAIN status |->
                                IF j = appended + 1 THEN "queued"
                                ELSE status[j]]
    /\ UNCHANGED <<settings, threads, pops, popError>>

\* A producer calls add() with a list of n recipients.
Produce ==
    /\ addCalls < MaxAdds
    /\ \E n \in 1..MaxRcpt : add(Recipients(n), "subject", <<>>)

\* ------------------------------------------------------------------ time
\* One time unit passes. The instant steps of a handler and an expired
\* Timer go first; a thread inside a transport call may stay there.
Tick ==
    /\ \A h \in DOMAIN threads : threads[h].pc \notin Instant
    /\ \A h \in DOMAIN threads : threads[h].pc = "timer" => threads[h].tleft > 0
    /\ \E h \in DOMAIN threads : threads[h].pc = "timer"
    /\ threads' = [h \in DOMAIN threads |->
                      IF threads[h].pc = "timer"
                         THEN [threads[h] EXCEPT !.tleft = @ - 1]
                         ELSE threads[h]]
    /\ UNCHANGED <<settings, queue, addCalls, appended, status, pops, popError>>

\* ----------------------------------------------------------- the handler
\* The Timer expires and its thread calls handler().
TimerFire(h) ==
    /\ threads[h].pc = "timer"
    /\ threads[h].tleft = 0
    /\ threads' = [threads EXCEPT ![h].pc = "arm"]
    /\ UNCHANGED <<settings, queue, addCalls, appended, status, pops, popError>>

\* ArmTimer with the next cycle armed only by a cycle that finds jobs.
ArmTimer_OnlyIfPending(h) ==
    /\ threads[h].pc = "arm"
    /\ Len(threads) < MaxThreads
    /\ threads' = IF queue # <<>>
                     THEN Append([threads EXCEPT ![h].pc = "check"], NewTimer)
                     ELSE [threads EXCEPT ![h].pc = "check"]
    /\ UNCHANGED <<settings, queue, addCalls, appended, status, pops, popError>>

\* ArmTimer with the chain forking: two Timers started by one invocation.
ArmTimer_Twice(h) ==
    /\ threads[h].pc = "arm"
    /\ Len(threads) < MaxThreads
    /\ threads' = Append(Append([threads EXCEPT ![h].pc = "check"],
                                NewTimer), NewTimer)
    /\ UNCHANGED <<settings, queue, addCalls, appended, status, pops, popError>>

\* Line 29: threading.Timer(3.0, handler).start()
ArmTimer(h) ==
    /\ threads[h].pc = "arm"
    /\ Len(threads) < MaxThreads
    /\ threads' = Append([threads EXCEPT ![h].pc = "check"], NewTimer)
    /\ UNCHANGED <<settings, queue, addCalls, appended, status, pops, popError>>

\* LoopTest with the test off by one: while len(self.__queue) > 1.
LoopTest_OffByOne(h) ==
    /\ threads[h].pc = "check"
    /\ threads' = IF Len(queue) > 1
                     THEN [threads EXCEPT ![h] =
                              [NewTimer EXCEPT !.pc = "pop", !.tleft = 0]]
                     ELSE Exit(h)
    /\ UNCHANGED <<settings, queue, addCalls, appended, status, pops, popError>>

\* Line 31: while len(self.__queue) > 0; when it is not, handler() returns
\* and its thread ends. The job of the round before is out of reach from
\* here on.
LoopTest(h) ==
    /\ threads[h].pc = "check"
    /\ threads' = IF Len(queue) > 0
                     THEN [threads EXCEPT ![h] =
                              [NewTimer EXCEPT !.pc = "pop", !.tleft = 0]]
                     ELSE Exit(h)
    /\ UNCHANGED <<settings, queue, addCalls, appended, status, pops, popError>>

\* PopLeft reading the head without removing it: self.__queue[0].
PopLeft_Peek(h) ==
    /\ threads[h].pc = "pop"
    /\ IF queue = <<>>
          THEN /\ threads' = Exit(h)
               /\ popError' = TRUE
               /\ UNCHANGED <<status, pops>>
          ELSE /\ threads' = [threads EXCEPT ![h].cur = Head(queue),
                                             ![h].pc = "cfg"]
               /\ status' = [status EXCEPT ![Head(queue).id] = "popped"]
               /\ pops' = [pops EXCEPT ![Head(queue).id] = @ + 1]
               /\ UNCHANGED popError
    /\ UNCHANGED <<settings, queue, addCalls, appended>>

\* Line 32: notification = self.__queue.popleft(); IndexError on an empty
\* deque is not caught and ends the thread.
PopLeft(h) ==
    /\ threads[h].pc = "pop"
    /\ IF queue = <<>>
          THEN /\ threads' = Exit(h)
               /\ popError' = TRUE
               /\ UNCHANGED <<queue, status, pops>>
          ELSE /\ threads' = [threads EXCEPT ![h].cur = Head(queue),
                                             ![h].pc = "cfg"]
               /\ queue' = Tail(queue)
               /\ status' = [status EXCEPT ![Head(queue).id] = "popped"]
               /\ pops' = [pops EXCEPT ![Head(queue).id] = @ + 1]
               /\ UNCHANGED popError
    /\ UNCHANGED <<settings, addCalls, appended>>

\* The delivery step of thread h has ended with `how` (or was not called):
\* the job is gone and the handler is back at its loop test.
Ended(h, how) ==
    /\ threads' = [threads EXCEPT ![h].pc = "check", ![h].outcome = how]
    /\ status' = [status EXCEPT ![threads[h].cur.id] = "done"]

\* Lines 34-43: the delivery step is called only with host, username and
\* password set; otherwise the loop goes on with the job dropped.
ConfigTest(h) ==
    /\ threads[h].pc = "cfg"
    /\ IF Configured
          THEN /\ threads' = [threads EXCEPT ![h].pc = "open"]
               /\ status' = [status EXCEPT ![threads[h].cur.id] = "sending"]
          ELSE Ended(h, "skipped")
    /\ UNCHANGED <<settings, queue, addCalls, appended, pops, popError>>

\* Caught without the except clause: the error ends the handler's thread
\* where it was raised.
Caught_Uncaught(h, how) ==
    /\ threads' = [threads EXCEPT ![h].pc = "raised", ![h].outcome = how]
    /\ status' = [status EXCEPT ![threads[h].cur.id] = "done"]

\* Lines 99-100: except Exception: the error is logged with the recipients.
Caught(h, how) == Ended(h, how)

\* Lines 90-93 of __notification_send_email: create_default_context(),
\* SMTP(), starttls(), login(); each may raise.
OpenSession(h) ==
    /\ threads[h].pc = "open"
    /\ \/ /\ threads' = [threads EXCEPT ![h].pc = "send"]
          /\ UNCHANGED status
       \/ Caught(h, "failed_open")
    /\ UNCHANGED <<settings, queue, addCalls, appended, pops, popError>>

\* Lines 95-98: one round of `for email in to_emails`: a sendmail call
\* addressed to the whole list to_emails, which returns or raises; after
\* the last round the delivery step returns.
SendMail(h) ==
    /\ threads[h].pc = "send"
    /\ \/ LET t == threads[h]
              log == Append(t.calls, t.cur.to_emails)
          IN  IF Len(log) < Len(t.cur.to_emails)
                 THEN /\ threads' = [threads EXCEPT ![h].calls = log]
                      /\ UNCHANGED status
                 ELSE /\ threads' = [threads EXCEPT ![h].calls = log,
                                                    ![h].pc = "check",
                                                    ![h].outcome = "sent"]
                      /\ status' = [status EXCEPT ![t.cur.id] = "done"]
       \/ Caught(h, "failed_send")
    /\ UNCHANGED <<settings, queue, addCalls, appended, pops, popError>>

\* One step of thread h.
ThreadStep(h) ==
    \/ TimerFire(h)
    \/ ArmTimer(h)
    \/ LoopTest(h)
    \/ PopLeft(h)
    \/ ConfigTest(h)
    \/ OpenSession(h)
    \/ SendMail(h)

Fire == \E h \in DOMAIN threads : TimerFire(h)
Arm == \E h \in DOMAIN threads : ArmTimer(h)
Test == \E h \in DOMAIN threads : LoopTest(h)
Pop == \E h \in DOMAIN threads : PopLeft(h)
Config == \E h \in DOMAIN threads : ConfigTest(h)
Open == \E h \in DOMAIN threads : OpenSession(h)
Send == \E h \in DOMAIN threads : SendMail(h)

QueueNext ==
    \/ Produce /\ UNCHANGED <<lvars, hvars, svars>>
    \/ Tick /\ UNCHANGED <<lvars, hvars, svars>>
    \/ Fire /\ UNCHANGED <<lvars, hvars, svars>>
    \/ Arm /\ UNCHANGED <<lvars, hvars, svars>>
    \/ Test /\ UNCHANGED <<lvars, hvars, svars>>
    \/ Pop /\ UNCHANGED <<lvars, hvars, svars>>
    \/ Config /\ UNCHANGED <<lvars, hvars, svars>>
    \/ Open /\ UNCHANGED <<lvars, hvars, svars>>
    \/ Send /\ UNCHANGED <<lvars, hvars, svars>>

\* The ledger is not used.
QueueSpec == Init /\ [][QueueNext]_vars

\* Time passes and the scheduler runs a thread that can take a step: a
\* Timer that has expired fires, and a transport call returns or raises.
FairQueueSpec ==
    /\ QueueSpec
    /\ WF_vars(Tick /\ UNCHANGED <<lvars, hvars, svars>>)
    /\ WF_vars((\E h \in DOMAIN threads : ThreadStep(h))
                  /\ UNCHANGED <<lvars, hvars, svars>>)

\* ------------------------------------------------------ the dedup ledger
RECURSIVE Sum(_, _)
\* The sum of f over the set S.
Sum(f, S) ==
    IF S = {} THEN 0
    ELSE LET x == CHOOSE y \in S : TRUE IN f[x] + Sum(f, S \ {x})

\* notification_sent_record_exists with notification_type left out of the
\* filter.
exists_IgnoresType(user_id, uuid, notification_type) ==
    \E r \in Rows :
        /\ ledger[r] > 0
        /\ r.user_id = user_id
        /\ r.uuid = uuid

\* notification_sent_record_exists answering True only for a single
\* matching row: .count() == 1 in place of .first() is not None.
exists_ExactlyOne(user_id, uuid, notification_type) ==
    \E r \in Rows :
        /\ ledger[r] = 1
        /\ r.user_id = user_id
        /\ r.uuid = uuid
        /\ r.notification_type = notification_type

\* Lines 245-256: notification_sent_record_exists: filter_by the three
\* columns, .first() is not None.
notification_sent_record_exists(user_id, uuid, notification_type) ==
    \E r \in Rows :
        /\ ledger[r] > 0
        /\ r.user_id = user_id
        /\ r.uuid = uuid
        /\ r.notification_type = notification_type

\* Lines 221-227 of notification_sent_record_add: a session is opened and
\* the new row added to it; nothing is stored before the commit. When the
\* storage raises here the error leaves the method: nothing catches it.
session_add(c, user_id, uuid, notification_type) ==
    /\ Sum(ledger, Rows) + Cardinality({d \in Callers : cpc[d] = "commit"})
          < MaxRows
    /\ \/ /\ cpc' = [cpc EXCEPT ![c] = "commit"]
          /\ crow' = [crow EXCEPT ![c] =
                         [user_id |-> user_id, uuid |-> uuid,
                          notification_type |-> notification_type]]
       \/ /\ cpc' = [cpc EXCEPT ![c] = "raised"]
          /\ crow' = [crow EXCEPT ![c] = NoRow]
    /\ UNCHANGED <<ledger, sends, recorded>>

\* session_commit with a failed commit caught and passed over: the call
\* returns as if the row were stored.
session_commit_Swallowed(c) ==
    /\ cpc[c] = "commit"
    /\ cpc' = [cpc EXCEPT ![c] = "idle"]
    /\ crow' = [crow EXCEPT ![c] = NoRow]
    /\ recorded' = recorded \cup {crow[c]}
    /\ \/ ledger' = [ledger EXCEPT ![crow[c]] = @ + 1]
       \/ UNCHANGED ledger
    /\ UNCHANGED sends

\* Line 228: session.commit(): the row is stored and the call returns, or
\* the storage raises, nothing is stored and the error leaves the method.
session_commit(c) ==
    /\ cpc[c] = "commit"
    /\ \/ /\ ledger' = [ledger EXCEPT ![crow[c]] = @ + 1]
          /\ recorded' = recorded \cup {crow[c]}
          /\ cpc' = [cpc EXCEPT ![c] = "idle"]
          /\ crow' = [crow EXCEPT ![c] = NoRow]
       \/ /\ cpc' = [cpc EXCEPT ![c] = "raised"]
          /\ crow' = [crow EXCEPT ![c] = NoRow]
          /\ UNCHANGED <<ledger, recorded>>
    /\ UNCHANGED sends

\* The caller of notification_sent_record_add has the error and goes on.
Propagated ==
    \E c \in Callers :
        /\ cpc[c] = "raised"
        /\ cpc' = [cpc EXCEPT ![c] = "idle"]
        /\ UNCHANGED <<ledger, crow, sends, recorded>>

\* A caller calls notification_sent_record_add without asking first.
RecordAdd ==
    \E c \in Callers, r \in Rows :
        /\ cpc[c] = "idle"
        /\ session_add(c, r.user_id, r.uuid, r.notification_type)

Commit == \E c \in Callers : session_commit(c)

\* The caller's pattern `if not exists(key): send; record(key)`, first
\* step: the ledger is asked and has no record of the key.
GuardExists ==
    \E c \in Callers, r \in Rows :
        /\ cpc[c] = "idle"
        /\ Sum(sends, Rows) + Cardinality({d \in Callers : cpc[d] = "notify"})
              < MaxSends
        /\ ~notification_sent_record_exists(r.user_id, r.uuid,
                                            r.notification_type)
        /\ cpc' = [cpc EXCEPT ![c] = "notify"]
        /\ crow' = [crow EXCEPT ![c] = r]
        /\ UNCHANGED <<ledger, sends, recorded>>

\* Second step of the pattern: the notification is sent.
GuardNotify ==
    \E c \in Callers :
        /\ cpc[c] = "notify"
        /\ sends' = [sends EXCEPT ![crow[c]] = @ + 1]
        /\ cpc' = [cpc EXCEPT ![c] = "record"]
        /\ UNCHANGED <<ledger, crow, recorded>>

\* Third step of the pattern: notification_sent_record_add with the key.
GuardRecord ==
    \E c \in Callers :
        /\ cpc[c] = "record"
        /\ session_add(c, crow[c].user_id, crow[c].uuid,
                       crow[c].notification_type)

LedgerNext ==
    \/ RecordAdd /\ UNCHANGED <<qvars, hvars, svars>>
    \/ Commit /\ UNCHANGED <<qvars, hvars, svars>>
    \/ GuardExists /\ UNCHANGED <<qvars, hvars, svars>>
    \/ GuardNotify /\ UNCHANGED <<qvars, hvars, svars>>
    \/ GuardRecord /\ UNCHANGED <<qvars, hvars, svars>>
    \/ Propagated /\ UNCHANGED <<qvars, hvars, svars>>

\* The ledger reads no setting: one configuration stands for all.
LedgerInit == Init /\ Configured

LedgerSpec == LedgerInit /\ [][LedgerNext]_vars

\* Every caller of the ledger follows the pattern.
GuardedNext ==
    \/ Commit /\ UNCHANGED <<qvars, hvars, svars>>
    \/ GuardExists /\ UNCHANGED <<qvars, hvars, svars>>
    \/ GuardNotify /\ UNCHANGED <<qvars, hvars, svars>>
    \/ GuardRecord /\ UNCHANGED <<qvars, hvars, svars>>
    \/ Propagated /\ UNCHANGED <<qvars, hvars, svars>>

GuardedLedgerSpec == LedgerInit /\ [][GuardedNext]_vars

\* ------------------------------------------------ the convenience senders
\* The senders, in the order test_notifications calls them.
Senders ==
    <<"send_email_verification", "send_transcription_finished",
      "send_transcription_failed", "send_job_deleted",
      "send_job_to_be_deleted", "send_new_user_created",
      "notification_send_account_activated", "send_quota_alert",
      "send_group_quota_alert", "send_weekly_usage_report">>

\* The keyword arguments a sender hands to str.format, none for a sender
\* that passes the template on as it is.
FormatArgs(sender) ==
    CASE sender = "send_new_user_created" -> <<"username">>
      [] sender = "send_quota_alert" ->
            <<"customer_name", "usage_percent", "blocks_purchased",
              "minutes_included", "minutes_consumed", "remaining_minutes">>
      [] sender = "send_group_quota_alert" ->
            <<"group_name", "usage_percent", "quota_minutes", "used_minutes",
              "remaining_minutes">>
      [] sender = "send_weekly_usage_report" ->
            <<"customer_name", "total_users", "transcribed_files",
              "transcribed_minutes", "transcribed_minutes_external",
              "blocks_purchased", "blocks_consumed", "minutes_included",
              "remaining_minutes", "overage_minutes">>
      [] OTHER -> <<>>

\* The values test_notifications calls a sender with, as str() gives them.
TestArgs(sender) ==
    CASE sender = "send_new_user_created" -> [username |-> "testuser"]
      [] sender = "send_quota_alert" ->
            [customer_name |-> "Test Customer", usage_percent |-> "96",
             blocks_purchased |-> "10", minutes_included |-> "40000",
             minutes_consumed |-> "38400", remaining_minutes |-> "1600"]
      [] sender = "send_group_quota_alert" ->
            [group_name |-> "Test Group", usage_percent |-> "97",
             quota_minutes |-> "5000", used_minutes |-> "4850",
             remaining_minutes |-> "150"]
      [] sender = "send_weekly_usage_report" ->
            [customer_name |-> "Test Customer", total_users |-> "25",
             transcribed_files |-> "142", transcribed_minutes |-> "8500",
             transcribed_minutes_external |-> "1200",
             blocks_purchased |-> "10", blocks_consumed |-> "2.13",
             minutes_included |-> "40000", remaining_minutes |-> "31500",
             overage_minutes |-> "0"]
      [] OTHER -> <<>>

\* settings.NOTIFICATION_MAIL_...["subject"] of a sender.
Subject(sender) == sender

\* A message template is a sequence of pieces: <<"text", s>> is the text
\* s, <<"field", f>> the replacement field {f}.
Plain == << <<"text", "body">> >>
\* The template that names the fields `names` after its text.
Naming(names) == Plain \o [i \in DOMAIN names |-> <<"field", names[i]>>]

\* The values settings.NOTIFICATION_MAIL_...["message"] of a sender may
\* have: for a sender that formats, a template that names all its
\* arguments, one that names only the first, and two that name a field
\* the sender does not supply.
Templates(sender) ==
    IF FormatArgs(sender) = <<>>
       THEN {Plain}
       ELSE {Naming(FormatArgs(sender)),
             Naming(<<FormatArgs(sender)[1]>>),
             Naming(FormatArgs(sender) \o <<"job_name">>),
             Naming(<<"job_name">>)}

\* str.format raised KeyError.
KeyError == << <<"raise", "KeyError">> >>

\* str.format leaving a field it has no argument for as it is.
format_Lenient(template, kwargs) ==
    [i \in DOMAIN template |->
        IF template[i][1] = "field" /\ template[i][2] \in DOMAIN kwargs
           THEN <<"text", kwargs[template[i][2]]>>
           ELSE template[i]]

\* template.format(**kwargs): every replacement field is replaced by the
\* argument of its name; a field without an argument raises KeyError.
format(template, kwargs) ==
    IF \E i \in DOMAIN template :
          template[i][1] = "field" /\ template[i][2] \notin DOMAIN kwargs
       THEN KeyError
       ELSE [i \in DOMAIN template |->
                IF template[i][1] = "field"
                   THEN <<"text", kwargs[template[i][2]]>>
                   ELSE template[i]]

\* message_of with the template passed on unformatted by every sender.
message_of_Unformatted(sender, template, kwargs) == template

\* The `message` argument a sender evaluates for add(): lines 116, 133,
\* 150, 167, 184, 272 the template; lines 201-203, 304-311, 341-347,
\* 387-398 the template formatted with the sender's arguments.
message_of(sender, template, kwargs) ==
    IF FormatArgs(sender) = <<>> THEN template
    ELSE format(template, [f \in {FormatArgs(sender)[i] :
                                     i \in DOMAIN FormatArgs(sender)} |->
                              kwargs[f]])

\* Lines 102-204 and 258-399: a call of the convenience sender `sender`
\* with the recipient to_email and the values kwargs, the template being
\* `template`. Evaluating the arguments of add() comes first: when it
\* raises add() is not called.
send(sender, to_email, kwargs, template) ==
    LET message == message_of(sender, template, kwargs)
    IN  /\ senderCalls' = senderCalls + 1
        /\ called' = [sender |-> sender, template |-> template]
        /\ IF message = KeyError
              THEN /\ senderRaised' = senderRaised + 1
                   /\ UNCHANGED qvars
              ELSE /\ add(<<to_email>>, Subject(sender), message)
                   /\ UNCHANGED senderRaised

\* The addresses of the users.
Emails == {"a@example.org"}

\* Some code calls a convenience sender.
SenderCall ==
    /\ senderCalls < MaxSenderCalls
    /\ \E i \in DOMAIN Senders, to_email \in Emails :
          \E template \in Templates(Senders[i]) :
             send(Senders[i], to_email, TestArgs(Senders[i]), template)
    /\ UNCHANGED tn

SenderInit == Init /\ Configured

SenderNext ==
    \/ SenderCall /\ UNCHANGED <<lvars, hvars>>
    \/ Tick /\ UNCHANGED <<lvars, hvars, svars>>
    \/ Fire /\ UNCHANGED <<lvars, hvars, svars>>
    \/ Arm /\ UNCHANGED <<lvars, hvars, svars>>
    \/ Test /\ UNCHANGED <<lvars, hvars, svars>>
    \/ Pop /\ UNCHANGED <<lvars, hvars, svars>>
    \/ Config /\ UNCHANGED <<lvars, hvars, svars>>
    \/ Open /\ UNCHANGED <<lvars, hvars, svars>>
    \/ Send /\ UNCHANGED <<lvars, hvars, svars>>

\* The senders are called on a configured transport and the queue drains.
SenderSpec == SenderInit /\ [][SenderNext]_vars

\* Lines 132-138 of test_notifications: the user's email is looked up;
\* without one the request ends with 400.
TnStart ==
    /\ tn.pc = "idle"
    /\ \E email \in Emails \cup {""} :
          tn' = IF email = ""
                   THEN [pc |-> "done", email |-> email, status_code |-> 400,
                         count |-> 0]
                   ELSE [tn EXCEPT !.pc = "send", !.email = email,
                                   !.count = 1]
    /\ UNCHANGED <<qvars, senderCalls, senderRaised, called>>

\* Lines 142-178: the next of the ten sender calls, tn.count being its
\* place in the order; an error it raises ends the request with 500.
TnSend ==
    /\ tn.pc = "send"
    /\ tn.count <= Len(Senders)
    /\ \E template \in Templates(Senders[tn.count]) :
          /\ send(Senders[tn.count], tn.email, TestArgs(Senders[tn.count]),
                  template)
          /\ tn' = IF message_of(Senders[tn.count], template,
                                 TestArgs(Senders[tn.count])) = KeyError
                      THEN [tn EXCEPT !.pc = "done", !.status_code = 500,
                                      !.count = 0]
                      ELSE [tn EXCEPT !.count = @ + 1]

\* Lines 180-184: the response, with the count 10.
TnReturn ==
    /\ tn.pc = "send"
    /\ tn.count > Len(Senders)
    /\ tn' = [tn EXCEPT !.pc = "done", !.status_code = 200, !.count = 10]
    /\ UNCHANGED <<qvars, senderCalls, senderRaised, called>>

TestNotificationsNext ==
    \/ TnStart /\ UNCHANGED <<lvars, hvars>>
    \/ TnSend /\ UNCHANGED <<lvars, hvars>>
    \/ TnReturn /\ UNCHANGED <<lvars, hvars>>

\* One POST /me/test-notifications request, with every setting of the
\* transport. The drain threads, which only take jobs from the head of
\* the buffer, stand still, so that the buffer holds what was appended.
TestNotificationsSpec == Init /\ [][TestNotificationsNext]_vars

\* ------------------------------------------------- the health aggregator
\* A snapshot as health.get() hands it out: the payload a worker posted
\* (n stands for its content), without the key "seen" or seen at 0 or 1.
Snapshots == {[n |-> 0]} \cup {[n |-> 0, seen |-> t] : t \in {0, 1}}
\* The histories a worker id can have in the mapping health.get() returns,
\* the empty list among them.
Histories == UNION {[1..k -> Snapshots] : k \in 0..MaxHist}

\* Line 95: last_seen = stats[-1].get("seen", 0)
last_seen(stats) ==
    LET last == stats[Len(stats)]
    IN  IF "seen" \in DOMAIN last THEN last.seen ELSE 0

\* is_online reading the oldest snapshot: stats[0].
is_online_First(stats, now) ==
    /\ stats # <<>>
    /\ now - (IF "seen" \in DOMAIN stats[1] THEN stats[1].seen ELSE 0)
          < OnlineWindow

\* is_online with the end of the window counted in: now - last_seen <= 120.
is_online_Inclusive(stats, now) ==
    /\ stats # <<>>
    /\ now - last_seen(stats) <= OnlineWindow

\* Lines 94-96: if stats: ... if now - last_seen < 120
is_online(stats, now) ==
    /\ stats # <<>>
    /\ now - last_seen(stats) < OnlineWindow

RECURSIVE online_count(_, _, _)
\* Lines 90-97: the loop over worker_data.items(), here over the worker
\* ids `ids` of `data`, counting the workers that are online at `now`.
online_count(data, ids, now) ==
    IF ids = {} THEN 0
    ELSE LET w == CHOOSE x \in ids : TRUE
         IN  (IF is_online(data[w], now) THEN 1 ELSE 0)
                + online_count(data, ids \ {w}, now)

\* core_ok with the workers counted in.
core_ok_WithWorkers(body) ==
    /\ body.backend = "ok"
    /\ body.database = "ok"
    /\ body.workers = "ok"

\* Line 104: core_ok = status["backend"] == "ok" and
\* status["database"] == "ok"
core_ok(body) ==
    /\ body.backend = "ok"
    /\ body.database = "ok"

\* health.get(): the history of every known worker, as it is now.
health_get == worker_data

\* Lines 64-107: GET /status; `body` is the dict `status`. The handler
\* awaits nothing, so it is one step of the event loop. The database probe (lines 82-86) succeeds or
\* raises; the except clause turns a raise into "error".
get_status ==
    \E db_ok \in BOOLEAN :
        LET now == clock
            data == health_get
            count == online_count(data, DOMAIN data, now)
            body == [backend |-> "ok",
                     database |-> IF db_ok THEN "ok" ELSE "error",
                     workers |-> IF count > 0 THEN "ok" ELSE "error",
                     workers_online |-> count]
        IN  /\ response' = [content |-> body,
                            status_code |-> IF core_ok(body) THEN 200
                                            ELSE 503]
            /\ probe' = [now |-> now, db_ok |-> db_ok]
            /\ UNCHANGED <<clock, worker_data, arrived, snapshot>>

\* Time goes on to a later instant.
PassTime ==
    /\ \E t \in Instants : t > clock /\ clock' = t
    /\ UNCHANGED <<worker_data, response, probe, arrived, snapshot>>

\* GET /status on any mapping the aggregator can hand out.
StatusInit ==
    /\ NotificationsInit
    /\ Configured
    /\ clock = 0
    /\ worker_data \in UNION {[W -> Histories] : W \in SUBSET Workers}
    /\ response = NoResponse
    /\ probe = NoProbe
    /\ arrived = <<>>
    /\ snapshot = NoSnapshot
    /\ SendersInit

StatusNext ==
    \/ get_status /\ UNCHANGED <<qvars, lvars, svars>>
    \/ PassTime /\ UNCHANGED <<qvars, lvars, svars>>

StatusSpec == StatusInit /\ [][StatusNext]_vars

\* HealthStatus.add(data): the payload, with the time of ingestion as
\* its "seen", is appended to the history of its worker.
health_add(data) ==
    worker_data' =
       [w \in DOMAIN worker_data \cup {data.worker_id} |->
           IF w = data.worker_id
              THEN Append(IF w \in DOMAIN worker_data THEN worker_data[w]
                          ELSE <<>>,
                          [n |-> data.n, seen |-> clock])
              ELSE worker_data[w]]

\* The POST /healthcheck requests handled so far.
Reported == Sum([w \in DOMAIN arrived |-> Len(arrived[w])], DOMAIN arrived)

\* Lines 30-34: POST /healthcheck: a worker posts its data, which goes to
\* health.add.
healthcheck ==
    /\ Reported < MaxReports
    /\ \E id \in Workers :
          LET data == [worker_id |-> id, n |-> Reported + 1]
          IN  /\ health_add(data)
              /\ arrived' =
                    [w \in DOMAIN arrived \cup {id} |->
                        IF w = id
                           THEN Append(IF w \in DOMAIN arrived
                                          THEN arrived[w] ELSE <<>>,
                                       [n |-> data.n, at |-> clock])
                           ELSE arrived[w]]
    /\ UNCHANGED <<clock, response, probe, snapshot>>

\* Lines 53-61: GET /healthcheck: an administrator gets health.get(),
\* anybody else 403.
get_healthcheck ==
    /\ \E bofh \in BOOLEAN :
          snapshot' = IF bofh
                         THEN [status_code |-> 200, result |-> health_get]
                         ELSE [status_code |-> 403, result |-> <<>>]
    /\ UNCHANGED <<clock, worker_data, response, probe, arrived>>

HealthNext ==
    \/ healthcheck /\ UNCHANGED <<qvars, lvars, svars>>
    \/ get_healthcheck /\ UNCHANGED <<qvars, lvars, svars>>
    \/ get_status /\ UNCHANGED <<qvars, lvars, svars>>
    \/ PassTime /\ UNCHANGED <<qvars, lvars, svars>>

\* The health router reads no setting: one configuration stands for all.
AggregatorInit == Init /\ Configured

\* The workers report to an aggregator that starts empty.
HealthSpec == AggregatorInit /\ [][HealthNext]_vars

TypeOK ==
    /\ Len(threads) \in 1..MaxThreads
    /\ \A h \in DOMAIN threads :
          /\ threads[h].pc \in {"timer"} \cup Running
          /\ threads[h].outcome \in {"none", "skipped", "sent"} \cup Failed
          /\ threads[h].tleft \in 0..TimerDelay
    /\ status \in [JobIds -> {"none", "queued", "popped", "sending", "done"}]
    /\ Len(queue) <= MaxAdds
    /\ addCalls \in 0..MaxAdds
    /\ cpc \in [Callers -> {"idle", "notify", "record", "commit", "raised"}]
    /\ ledger \in [Rows -> 0..MaxRows]

\* Places of job j in the pending buffer.
InQueue(j) == {i \in DOMAIN queue : queue[i].id = j}

\* ------------------------------------------------------------------ C1
\* C1: the drain cycle is re-armed only after the current cycle has
\* completed, so in every reachable state at most one handler invocation
\* is executing, also when a delivery attempt lasts longer than the
\* Timer's 3 time units.
C1_OneCycleAtATime ==
    Cardinality({h \in DOMAIN threads : threads[h].pc \in Running}) <= 1

\* ------------------------------------------------------------------ C2
\* C2: a delivery step that ends without an error has made exactly one
\* sendmail call for its job, addressed to all the job's recipients.
C2_OneSendCallPerJob ==
    \A h \in DOMAIN threads :
        threads[h].outcome = "sent" =>
           threads[h].calls = <<threads[h].cur.to_emails>>

\* ------------------------------------------------------------------ C3
\* C3: when the delivery step of a dequeued job fails, the error is caught
\* in the step (the handler is back at its loop test, not ended), the job
\* is discarded and is not in the pending buffer again, and no job is ever
\* dequeued more than once.
C3_DropOnFailure ==
    /\ \A h \in DOMAIN threads :
          threads[h].outcome \in Failed =>
             /\ threads[h].pc = "check"
             /\ status[threads[h].cur.id] = "done"
             /\ InQueue(threads[h].cur.id) = {}
    /\ \A j \in JobIds : pops[j] <= 1
    /\ \A i \in DOMAIN queue : pops[queue[i].id] = 0

\* A sendmail call raised after an earlier call for the same job returned,
\* with another job waiting in the buffer.
C3_Witness ==
    \E h \in DOMAIN threads :
        /\ threads[h].outcome = "failed_send"
        /\ Len(threads[h].calls) = 1
        /\ queue # <<>>

\* ------------------------------------------------------------------ C4
\* C4: when a drain cycle ends (its loop test finds the buffer empty and
\* the handler returns), the buffer is empty and every job appended so far
\* has been removed exactly once, whatever the transport did.
C4_CycleEmptiesBuffer ==
    [][\A h \in DOMAIN threads :
          (threads[h].pc = "check" /\ threads' = Exit(h)) =>
             /\ queue' = <<>>
             /\ \A j \in 1..appended' : pops'[j] = 1]_vars

\* A cycle is about to end: the delivery of the last of two jobs has just
\* failed, the buffer is empty and no other handler is executing.
C4_Witness ==
    \E h \in DOMAIN threads :
        /\ threads[h].pc = "check"
        /\ threads[h].outcome \in Failed
        /\ threads[h].cur.id = 2
        /\ pops[1] = 1
        /\ queue = <<>>
        /\ \A g \in DOMAIN threads \ {h} : threads[g].pc \notin Running

\* ------------------------------------------------------------------ C5
\* C5: for jobs a, b with add(a) before add(b), the delivery attempt of a
\* has ended before the delivery attempt of b begins.
C5_FifoDelivery ==
    \A a, b \in JobIds :
        (a < b /\ status[b] \in {"sending", "done"}) => status[a] = "done"

\* ------------------------------------------------------------------ C6
\* C6: with the transport unconfigured (any of host, username, password
\* missing, as the drain loop tests it) add() appends nothing: the buffer
\* stays empty.
C6_NoEnqueueWhenUnconfigured ==
    ~Configured => (queue = <<>> /\ appended = 0)

\* ------------------------------------------------------------------ C7
\* C7: no job is lost or duplicated by an interleaving of append and pop:
\* every appended job is either once in the buffer or has been popped
\* once, never both, and nothing else is in the buffer.
C7_NoLossNoDuplicate ==
    /\ \A j \in JobIds :
          Cardinality(InQueue(j)) + pops[j] = IF j <= appended THEN 1 ELSE 0
    /\ \A i \in DOMAIN queue : queue[i].id \in 1..appended

\* A producer has appended a job while a handler holds the job popped
\* before it and is inside a transport call.
C7_Witness ==
    \E h \in DOMAIN threads :
        /\ threads[h].pc = "send"
        /\ threads[h].cur.id = 1
        /\ InQueue(2) # {}

\* ------------------------------------------------------------------ C8
\* C8: the timer chain goes on whatever a cycle does, so every job
\* accepted into the pending buffer is eventually dequeued.
C8_EventuallyDequeued ==
    \A j \in JobIds : (status[j] = "queued") ~> (pops[j] = 1)

\* A handler thread has ended with IndexError and every accepted job has
\* been dequeued all the same.
C8_Witness ==
    /\ popError
    /\ appended = 2
    /\ \A j \in 1..appended : pops[j] = 1

\* ------------------------------------------------------------------ C9
\* C9: for every key triple, notification_sent_record_exists is False as
\* long as no notification_sent_record_add with that exact triple has
\* returned and True in every state after one has; records of another
\* triple do not change the answer.
C9_ExistsIffRecorded ==
    \A r \in Rows :
        notification_sent_record_exists(r.user_id, r.uuid, r.notification_type)
           <=> r \in recorded

\* A record of one key is stored, and a key that differs from it only in
\* the notification type, and one that differs only in the user, have none.
C9_Witness ==
    \E r, s, t \in Rows :
        /\ r \in recorded
        /\ s.user_id = r.user_id /\ s.notification_type # r.notification_type
        /\ t.user_id # r.user_id /\ t.notification_type = r.notification_type
        /\ s \notin recorded
        /\ t \notin recorded

\* ----------------------------------------------------------------- C10
\* C10: the ledger holds at most one record per key, and a notification
\* guarded by `if not exists(key): send; record(key)` is sent at most once
\* per key, also with two callers running the pattern at the same time.
C10_OneRecordPerKey ==
    \A r \in Rows : ledger[r] <= 1 /\ sends[r] <= 1

\* ----------------------------------------------------------------- C11
\* C11: a second notification_sent_record_add with a key that has a record
\* already leaves the answer of notification_sent_record_exists as it was
\* after the first, for every key, also when the table then holds two rows
\* of that key.
C11_RecordIdempotent ==
    [][\A k \in Rows :
          (ledger[k] >= 1 /\ ledger'[k] = ledger[k] + 1) =>
             \A r \in Rows :
                notification_sent_record_exists(r.user_id, r.uuid,
                                                r.notification_type)'
                   <=> notification_sent_record_exists(r.user_id, r.uuid,
                                                       r.notification_type)]_vars

\* Two records of one key are stored: the ledger says the key is recorded
\* and that another key is not.
C11_Witness ==
    \E k, r \in Rows :
        /\ ledger[k] = 2
        /\ notification_sent_record_exists(k.user_id, k.uuid,
                                           k.notification_type)
        /\ r # k
        /\ ~notification_sent_record_exists(r.user_id, r.uuid,
                                            r.notification_type)

\* ----------------------------------------------------------------- C12
\* C12: a GET /status at time `now` counts a worker online iff its history
\* is not empty and the `seen` of its last snapshot (0 when the snapshot
\* has none) satisfies now - seen < 120; workers_online is the number of
\* such workers and `workers` is "ok" iff that number is at least 1.
C12_WorkerStatus ==
    response # NoResponse =>
       LET online == {w \in DOMAIN worker_data :
                         /\ Len(worker_data[w]) > 0
                         /\ LET last == worker_data[w][Len(worker_data[w])]
                                seen == IF "seen" \in DOMAIN last
                                           THEN last.seen ELSE 0
                            IN  probe.now - seen < 120}
       IN  /\ response.content.workers_online = Cardinality(online)
           /\ response.content.workers = "ok" <=> Cardinality(online) >= 1
           /\ response.content.workers \in {"ok", "error"}

\* A status query 119 seconds after the last snapshot of the only worker
\* with a history, which has an older snapshot as well: one worker online.
C12_Witness ==
    /\ response # NoResponse
    /\ response.content.workers_online = 1
    /\ \E w \in DOMAIN worker_data :
          /\ Len(worker_data[w]) = 2
          /\ "seen" \in DOMAIN worker_data[w][2]
          /\ "seen" \in DOMAIN worker_data[w][1]
          /\ worker_data[w][1].seen < worker_data[w][2].seen
          /\ probe.now = worker_data[w][2].seen + 119
          /\ \A v \in DOMAIN worker_data \ {w} : worker_data[v] = <<>>

\* The jobs in the pending buffer and in the hands of the drain threads.
JobsAlive ==
    {queue[i] : i \in DOMAIN queue}
       \cup {threads[h].cur : h \in {g \in DOMAIN threads :
                                        threads[g].cur # NoJob}}

\* ----------------------------------------------------------------- C13
\* C13: with the transport configured every call of a convenience sender
\* that returns has appended exactly one job; the job has one recipient
\* and its message is the sender's template with every argument the
\* sender supplies put in place of its field; and a delivery step of the
\* job that ends without an error has made exactly one sendmail call.
C13_SenderOneJobOneCall ==
    /\ appended = senderCalls - senderRaised
    /\ \A job \in JobsAlive :
          /\ Len(job.to_emails) = 1
          /\ \E template \in Templates(job.subject) :
                /\ Len(job.message) = Len(template)
                /\ \A i \in DOMAIN template :
                      job.message[i] =
                         IF /\ template[i][1] = "field"
                            /\ template[i][2] \in DOMAIN TestArgs(job.subject)
                            THEN <<"text", TestArgs(job.subject)[template[i][2]]>>
                            ELSE template[i]
    /\ \A h \in DOMAIN threads :
          threads[h].outcome = "sent" =>
             threads[h].calls = <<threads[h].cur.to_emails>>

\* The delivery step of a quota alert has ended without an error after
\* one sendmail call to the one recipient; the message holds the six values.
C13_Witness ==
    \E h \in DOMAIN threads :
        /\ threads[h].outcome = "sent"
        /\ threads[h].cur.subject = "send_quota_alert"
        /\ threads[h].calls = << <<"a@example.org">> >>
        /\ \A v \in {"Test Customer", "96", "10", "40000", "38400", "1600"} :
              \E i \in DOMAIN threads[h].cur.message :
                 threads[h].cur.message[i] = <<"text", v>>

\* ----------------------------------------------------------------- C14
\* C14: a call of a sender that formats its template, with a template that
\* names a field the sender does not supply, raises before add() is
\* reached: add() is not called and the pending buffer is as it was; and
\* no message with a field left in it is in the buffer or with a drain
\* thread.
C14_TemplateMismatchRaises ==
    [][/\ (/\ senderCalls' = senderCalls + 1
           /\ FormatArgs(called'.sender) # <<>>
           /\ \E i \in DOMAIN called'.template :
                 /\ called'.template[i][1] = "field"
                 /\ \A k \in DOMAIN FormatArgs(called'.sender) :
                       FormatArgs(called'.sender)[k] # called'.template[i][2])
          => /\ senderRaised' = senderRaised + 1
             /\ addCalls' = addCalls
             /\ queue' = queue
       /\ \A job \in JobsAlive' :
             \A i \in DOMAIN job.message : job.message[i][1] = "text"]_vars

\* send_quota_alert has raised on a template that names its six arguments
\* and one more; add() was not called and the buffer is empty.
C14_Witness ==
    /\ senderRaised = 1
    /\ called.sender = "send_quota_alert"
    /\ Len(called.template) = 8
    /\ addCalls = 0
    /\ queue = <<>>

\* ----------------------------------------------------------------- C15
\* C15: a notification_sent_record_add call returns only with its row
\* stored; when the storage fails, on the insert or on the commit, the
\* error reaches the caller, no row is stored and
\* notification_sent_record_exists answers for every key what it answered
\* before.
C15_WriteErrorPropagates ==
    [][\A c \in Callers :
          /\ (cpc[c] = "commit" /\ cpc'[c] = "idle")
                => ledger'[crow[c]] = ledger[crow[c]] + 1
          /\ (cpc[c] # "raised" /\ cpc'[c] = "raised")
                => /\ ledger' = ledger
                   /\ \A r \in Rows :
                         notification_sent_record_exists(
                               r.user_id, r.uuid, r.notification_type)'
                            <=> notification_sent_record_exists(
                                   r.user_id, r.uuid, r.notification_type)]_vars

\* The storage has failed under one caller, who has the error, while a
\* row of another caller is stored: the ledger has a record of that key
\* only.
C15_Witness ==
    \E c \in Callers, k \in Rows :
        /\ cpc[c] = "raised"
        /\ ledger[k] = 1
        /\ \A r \in Rows :
              notification_sent_record_exists(r.user_id, r.uuid,
                                              r.notification_type) <=> r = k

C17_StatusCodeFromDatabase ==
    response # NoResponse =>
       /\ response.status_code = IF probe.db_ok THEN 200 ELSE 503
       /\ response.content.backend = "ok"
       /\ response.content.database = IF probe.db_ok THEN "ok" ELSE "error"
       /\ ~probe.db_ok =>
             response.content.workers_online =
                Cardinality({w \in DOMAIN worker_data :
                                /\ worker_data[w] # <<>>
                                /\ \/ /\ "seen" \notin
                                         DOMAIN worker_data[w][Len(worker_data[w])]
                                      /\ probe.now < 120
                                   \/ /\ "seen" \in
                                         DOMAIN worker_data[w][Len(worker_data[w])]
                                      /\ probe.now
                                            - worker_data[w][Len(worker_data[w])].seen
                                               < 120})

\* The probe failed and both workers are online: 503 with "workers" ok.
C17_Witness ==
    /\ response # NoResponse
    /\ ~probe.db_ok
    /\ response.status_code = 503
    /\ response.content.workers = "ok"
    /\ response.content.workers_online = 2

\* ----------------------------------------------------------------- C18
\* C18: a test_notifications request of a user without an email returns
\* 400 and appends nothing; one of a user with an email that returns,
\* returns count = 10 and has appended exactly 10 jobs, one per sender in
\* the order of the calls, each to that one address: the count is the
\* number of jobs queued.
C18_TestNotificationsCount ==
    (tn.pc = "done" /\ tn.status_code # 500) =>
       IF tn.email = ""
          THEN tn.status_code = 400 /\ appended = 0 /\ queue = <<>>
          ELSE /\ tn.status_code = 200
               /\ tn.count = 10
               /\ appended = tn.count
               /\ Len(queue) = 10
               /\ \A k \in DOMAIN queue :
                     /\ queue[k].subject = Subject(Senders[k])
                     /\ queue[k].to_emails = <<tn.email>>

\* ----------------------------------------------------------------- C19
\* C19: every popleft of a drain thread finds the pending buffer
\* non-empty: no thread stands between its loop test and its popleft with
\* the buffer empty, and no handler has ended with IndexError.
C19_NeverPopsEmpty ==
    /\ ~popError
    /\ \A h \in DOMAIN threads : threads[h].pc = "pop" => queue # <<>>

\* ----------------------------------------------------------------- C20
\* C20: with every setting of host, username and password, a job that
\* add() accepted and a drain thread dequeued gets its delivery step: no
\* handler goes back to its loop test with the job dropped unattempted.
C20_EveryJobAttempted ==
    \A h \in DOMAIN threads :
        threads[h].cur # NoJob => threads[h].outcome # "skipped"

\* ----------------------------------------------------------------- C21
\* The Timers that wait for their delay (or have just expired and have not
\* called handler() yet).
PendingTimers == {h \in DOMAIN threads : threads[h].pc = "timer"}
\* The handler invocations that stand before line 29: entered by their
\* Timer's thread, the next Timer not started yet.
Arming == {h \in DOMAIN threads : threads[h].pc = "arm"}

\* C21 as stated: in every reachable state after construction exactly one
\* Timer of the instance is pending.
C21_ExactlyOneTimerPending ==
    Cardinality(PendingTimers) = 1

\* C21: the timer chain neither forks nor dies. In every reachable state
\* there is exactly one link of the chain: either one pending Timer, or
\* one handler invocation that its Timer has just called and that stands
\* at its first statement, having drained nothing yet. So never more than
\* one Timer is pending, and exactly one is whenever no invocation stands
\* before line 29, whatever the drains of the other invocations did.
C21_TimerChain ==
    /\ Cardinality(PendingTimers) + Cardinality(Arming) = 1
    /\ \A h \in Arming :
          threads[h].cur = NoJob /\ threads[h].outcome = "none"

\* A drain has ended with the uncaught IndexError, another invocation is
\* still inside a transport call, and one Timer is pending.
C21_Witness ==
    /\ popError
    /\ \E h \in DOMAIN threads : threads[h].pc \in {"open", "send"}
    /\ Cardinality(PendingTimers) = 1

====
